---- MODULE Spec2Model ----
(***************************************************************************)
(* HeadersPolyfill (src/src/Headers.ts): a case-insensitive container of   *)
(* header name/value pairs kept in two structures, the plain object        *)
(* `headers` (normalized name -> value) and the Map `names` (normalized    *)
(* name -> raw spelling).                                                  *)
(*                                                                         *)
(* Strings are sequences of one-character strings.  JavaScript values are  *)
(* records [t |-> type tag, s |-> string contents].  A plain object is the *)
(* sequence of its own properties <<key, value>> in creation order; reads  *)
(* and writes follow ECMAScript [[Get]], [[Set]] and OrdinaryOwnPropertyKeys*)
(* for an object whose prototype is Object.prototype.                      *)
(***************************************************************************)
EXTENDS Integers, Sequences, FiniteSets, TLC

VARIABLES ref, headers, names, last, calls, init, pos

vars == <<ref, headers, names, last, calls, init, pos>>

(***************************************************************************)
(* Bounds                                                                  *)
(***************************************************************************)
\* mutating calls (set/append/delete) made on one instance
MaxCalls == 4
\* mutating calls made on an instance and its copy together
MaxCopyCalls == 3
\* entries of an initializer
MaxInitLen == 2

(***************************************************************************)
(* Characters and strings                                                  *)
(***************************************************************************)
NUL == "NUL"   \* the character U+0000

LineBreaks == {"\n", "\r"}
Whitespace == {" ", "\t"} \cup LineBreaks
Digits == {"0", "1", "2", "3", "4", "5", "6", "7", "8", "9"}

RECURSIVE TrimStart(_)
TrimStart(s) ==
    IF s # <<>> /\ Head(s) \in Whitespace THEN TrimStart(Tail(s)) ELSE s

RECURSIVE TrimEnd(_)
TrimEnd(s) ==
    IF s # <<>> /\ s[Len(s)] \in Whitespace
    THEN TrimEnd(SubSeq(s, 1, Len(s) - 1))
    ELSE s

\* String.prototype.trim
Trim(s) == TrimEnd(TrimStart(s))

LowerChar(c) ==
    CASE c = "A" -> "a"
      [] c = "B" -> "b"
      [] c = "X" -> "x"
      [] OTHER -> c

\* String.prototype.toLowerCase
ToLowerCase(s) == [i \in 1..Len(s) |-> LowerChar(s[i])]

(***************************************************************************)
(* JavaScript values                                                       *)
(***************************************************************************)
Str(s) == [t |-> "string", s |-> s]
Null == [t |-> "null", s |-> <<>>]
Undefined == [t |-> "undefined", s |-> <<>>]
\* Object.prototype.constructor and Object.prototype itself
ObjectFunction == [t |-> "function", s |-> <<"Object">>]
ObjectPrototype == [t |-> "object", s |-> <<"Object.prototype">>]

\* ToBoolean: the falsy values that occur here are "", null and undefined
Truthy(v) == ~(v.t \in {"null", "undefined"} \/ (v.t = "string" /\ v.s = <<>>))

\* ToString as used by a template literal, for strings and null
ToStringJS(v) == IF v.t = "null" THEN <<"n", "u", "l", "l">> ELSE v.s

kConstructor == <<"c", "o", "n", "s", "t", "r", "u", "c", "t", "o", "r">>
kProto == <<"_", "_", "p", "r", "o", "t", "o", "_", "_">>

(***************************************************************************)
(* Plain objects: `{}` with prototype Object.prototype                     *)
(***************************************************************************)
EmptyObject == <<>>

OwnIndex(obj, k) ==
    IF \E i \in 1..Len(obj) : obj[i][1] = k
    THEN CHOOSE i \in 1..Len(obj) : obj[i][1] = k
    ELSE 0

\* Object.prototype.hasOwnProperty
HasOwnProperty(obj, k) == OwnIndex(obj, k) # 0

\* obj[k] read: own property, else the property inherited from
\* Object.prototype ("constructor" and the "__proto__" accessor are the
\* only lower-case names it has), else undefined
PropGet(obj, k) ==
    IF HasOwnProperty(obj, k) THEN obj[OwnIndex(obj, k)][2]
    ELSE IF k = kConstructor THEN ObjectFunction
    ELSE IF k = kProto THEN ObjectPrototype
    ELSE Undefined

\* obj[k] = v: "__proto__" reaches the inherited setter, which ignores a
\* value that is neither an object nor null; an own property keeps its
\* position; a new one is created last
PropSet(obj, k, v) ==
    IF HasOwnProperty(obj, k)
    THEN [obj EXCEPT ![OwnIndex(obj, k)] = <<k, v>>]
    ELSE IF k = kProto /\ v.t \notin {"object", "null"} THEN obj
    ELSE Append(obj, <<k, v>>)

\* delete obj[k]
PropDelete(obj, k) ==
    IF HasOwnProperty(obj, k)
    THEN LET i == OwnIndex(obj, k)
         IN SubSeq(obj, 1, i - 1) \o SubSeq(obj, i + 1, Len(obj))
    ELSE obj

\* an array index: a canonical numeric string
IsArrayIndex(k) ==
    /\ k # <<>>
    /\ \A i \in 1..Len(k) : k[i] \in Digits
    /\ (Len(k) = 1 \/ k[1] # "0")

DigitVal(c) ==
    CASE c = "0" -> 0 [] c = "1" -> 1 [] c = "2" -> 2 [] c = "3" -> 3
      [] c = "4" -> 4 [] c = "5" -> 5 [] c = "6" -> 6 [] c = "7" -> 7
      [] c = "8" -> 8 [] c = "9" -> 9

RECURSIVE NumVal(_)
NumVal(k) ==
    IF k = <<>> THEN 0
    ELSE NumVal(SubSeq(k, 1, Len(k) - 1)) * 10 + DigitVal(k[Len(k)])

RECURSIVE SortIndices(_)
SortIndices(S) ==
    IF S = {} THEN <<>>
    ELSE LET m == CHOOSE x \in S : \A y \in S : NumVal(x) <= NumVal(y)
         IN <<m>> \o SortIndices(S \ {m})

\* OrdinaryOwnPropertyKeys: array indices in ascending numeric order, then
\* the other string keys in creation order
OwnKeys(obj) ==
    LET idx == {obj[i][1] : i \in {j \in 1..Len(obj) : IsArrayIndex(obj[j][1])}}
        strs == SelectSeq(obj, LAMBDA p : ~IsArrayIndex(p[1]))
    IN SortIndices(idx) \o [i \in 1..Len(strs) |-> strs[i][1]]

(***************************************************************************)
(* Map                                                                     *)
(***************************************************************************)
EmptyMap == <<>>
MapSet(m, k, v) == [x \in (DOMAIN m) \cup {k} |-> IF x = k THEN v ELSE m[x]]
MapDelete(m, k) == [x \in (DOMAIN m) \ {k} |-> m[x]]
MapGet(m, k) == IF k \in DOMAIN m THEN Str(m[k]) ELSE Undefined

(***************************************************************************)
(* utils/normalizeHeaderName, utils/normalizeHeaderValue                   *)
(***************************************************************************)
None == "none"
InvalidHeaderName == "InvalidHeaderName"
InvalidHeaderValue == "InvalidHeaderValue"

Separators ==
    {":", "(", ")", "<", ">", "@", ",", ";", "\\", "\"", "/", "[", "]", "?",
     "=", "{", "}"}
ControlChars == {NUL, "\t", "\n", "\r"}

\* characters outside the header-name token set
InvalidNameChars == ControlChars \cup Whitespace \cup Separators

\* fails if the name is empty after trimming or holds a character outside
\* the token set; otherwise the trimmed, lower-cased name
normalizeHeaderName(name) ==
    LET t == Trim(name)
    IN IF t = <<>> \/ \E i \in 1..Len(t) : t[i] \in InvalidNameChars
       THEN [thrown |-> InvalidHeaderName, value |-> <<>>]
       ELSE [thrown |-> None, value |-> ToLowerCase(t)]

\* a run of line breaks becomes one space
RECURSIVE CollapseLineBreaks(_)
CollapseLineBreaks(s) ==
    IF s = <<>> THEN <<>>
    ELSE IF Head(s) \in LineBreaks
    THEN IF Len(s) > 1 /\ s[2] \in LineBreaks
         THEN CollapseLineBreaks(Tail(s))
         ELSE <<" ">> \o CollapseLineBreaks(Tail(s))
    ELSE <<Head(s)>> \o CollapseLineBreaks(Tail(s))

\* strips surrounding whitespace, folds inner line breaks into single spaces,
\* fails if a control character is left
normalizeHeaderValue(value) ==
    LET v == CollapseLineBreaks(Trim(value))
    IN IF \E i \in 1..Len(v) : v[i] \in ControlChars
       THEN [thrown |-> InvalidHeaderValue, value |-> <<>>]
       ELSE [thrown |-> None, value |-> v]

(***************************************************************************)
(* class HeadersPolyfill; `this` is [headers |-> object, names |-> Map]    *)
(***************************************************************************)
CommaSpace == <<",", " ">>

Returns(this) == [thrown |-> None, headers |-> this.headers, names |-> this.names]
Throws(this, e) == [thrown |-> e, headers |-> this.headers, names |-> this.names]

\* get(name): this.headers[normalizeHeaderName(name)] || null
get(this, name) ==
    LET n == normalizeHeaderName(name)
    IN IF n.thrown # None THEN [thrown |-> n.thrown, value |-> Undefined]
       ELSE LET v == PropGet(this.headers, n.value)
            IN [thrown |-> None, value |-> IF Truthy(v) THEN v ELSE Null]

\* has(name): this.headers.hasOwnProperty(normalizeHeaderName(name))
has(this, name) ==
    LET n == normalizeHeaderName(name)
    IN IF n.thrown # None THEN [thrown |-> n.thrown, value |-> FALSE]
       ELSE [thrown |-> None, value |-> HasOwnProperty(this.headers, n.value)]

\* variant: the value is stored as passed
setStoresRaw(this, name, value) ==
    LET n == normalizeHeaderName(name)
        v == normalizeHeaderValue(value)
    IN IF n.thrown # None THEN Throws(this, n.thrown)
       ELSE IF v.thrown # None THEN Throws(this, v.thrown)
       ELSE [thrown |-> None,
             headers |-> PropSet(this.headers, n.value, Str(value)),
             names |-> MapSet(this.names, n.value, name)]

\* variant: this.names.set(name, normalizedName)
setSwapsNames(this, name, value) ==
    LET n == normalizeHeaderName(name)
        v == normalizeHeaderValue(value)
    IN IF n.thrown # None THEN Throws(this, n.thrown)
       ELSE IF v.thrown # None THEN Throws(this, v.thrown)
       ELSE [thrown |-> None,
             headers |-> PropSet(this.headers, n.value, Str(v.value)),
             names |-> MapSet(this.names, name, n.value)]

\* variant: the raw name is recorded before the value is normalized
setRecordsNameFirst(this, name, value) ==
    LET n == normalizeHeaderName(name)
        v == normalizeHeaderValue(value)
    IN IF n.thrown # None THEN Throws(this, n.thrown)
       ELSE IF v.thrown # None
       THEN [thrown |-> v.thrown,
             headers |-> this.headers,
             names |-> MapSet(this.names, n.value, name)]
       ELSE [thrown |-> None,
             headers |-> PropSet(this.headers, n.value, Str(v.value)),
             names |-> MapSet(this.names, n.value, name)]

\* set(name, value)
set(this, name, value) ==
    LET n == normalizeHeaderName(name)
        v == normalizeHeaderValue(value)
    IN IF n.thrown # None THEN Throws(this, n.thrown)
       ELSE IF v.thrown # None THEN Throws(this, v.thrown)
       ELSE [thrown |-> None,
             headers |-> PropSet(this.headers, n.value, Str(v.value)),
             names |-> MapSet(this.names, n.value, name)]

\* append(name, value)
append(this, name, value) ==
    LET n == normalizeHeaderName(name)
    IN IF n.thrown # None THEN Throws(this, n.thrown)
       ELSE LET h == has(this, n.value)
                g == get(this, n.value)
            IN IF h.thrown # None THEN Throws(this, h.thrown)
               ELSE IF h.value /\ g.thrown # None THEN Throws(this, g.thrown)
               ELSE LET resolvedValue ==
                            IF h.value
                            THEN ToStringJS(g.value) \o CommaSpace \o value
                            ELSE value
                    IN set(this, name, resolvedValue)

\* variant: the entry of this.names is left behind
deleteKeepsName(this, name) ==
    LET h == has(this, name)
    IN IF h.thrown # None THEN Throws(this, h.thrown)
       ELSE IF ~h.value THEN Returns(this)
       ELSE LET n == normalizeHeaderName(name)
            IN [thrown |-> None,
                headers |-> PropDelete(this.headers, n.value),
                names |-> this.names]

\* delete(name)
delete(this, name) ==
    LET h == has(this, name)
    IN IF h.thrown # None THEN Throws(this, h.thrown)
       ELSE IF ~h.value THEN Returns(this)
       ELSE LET n == normalizeHeaderName(name)
            IN [thrown |-> None,
                headers |-> PropDelete(this.headers, n.value),
                names |-> MapDelete(this.names, n.value)]

\* keys(): Object.keys(this.headers)
keys(this) == OwnKeys(this.headers)

\* values(): Object.values(this.headers)
values(this) ==
    LET ks == OwnKeys(this.headers)
    IN [i \in 1..Len(ks) |-> PropGet(this.headers, ks[i])]

\* entries(): [name, this.get(name)] for each of Object.keys(this.headers)
entries(this) ==
    LET ks == OwnKeys(this.headers)
    IN [i \in 1..Len(ks) |-> <<ks[i], get(this, ks[i]).value>>]

\* [Symbol.iterator](): this.entries()
iterator(this) == entries(this)

\* a property key made from a value: ToString
ToPropertyKey(v) ==
    IF v.t = "undefined" THEN <<"u", "n", "d", "e", "f", "i", "n", "e", "d">>
    ELSE v.s

RECURSIVE RawFill(_, _, _)
RawFill(rawHeaders, es, nm) ==
    IF es = <<>> THEN rawHeaders
    ELSE RawFill(PropSet(rawHeaders, ToPropertyKey(MapGet(nm, Head(es)[1])),
                         Head(es)[2]),
                 Tail(es), nm)

\* raw(): rawHeaders[this.names.get(name)] = value over this.entries()
raw(this) == RawFill(EmptyObject, entries(this), this.names)

\* forEach(callback): the calls callback(value, name, this) it makes, in
\* order, as <<value, name>>
forEach(this) ==
    LET ks == OwnKeys(this.headers)
    IN [i \in 1..Len(ks) |-> <<PropGet(this.headers, ks[i]), ks[i]>>]

\* Array.prototype.join(sep)
RECURSIVE ArrayJoin(_, _)
ArrayJoin(arr, sep) ==
    IF arr = <<>> THEN <<>>
    ELSE IF Len(arr) = 1 THEN arr[1]
    ELSE arr[1] \o sep \o ArrayJoin(Tail(arr), sep)

Arr(items) == [t |-> "array", s |-> items]

\* Array.isArray(value) ? value.join(', ') : value
JoinIfArray(value) ==
    IF value.t = "array" THEN ArrayJoin(value.s, CommaSpace) ELSE value.s

\* this.append(name, value) for each <<name, value>> of es, in order; a throw
\* ends the loop
RECURSIVE AppendEach(_, _)
AppendEach(this, es) ==
    IF es = <<>> THEN Returns(this)
    ELSE LET r == append(this, Head(es)[1], Head(es)[2])
         IN IF r.thrown # None THEN r
            ELSE AppendEach([headers |-> r.headers, names |-> r.names], Tail(es))

\* the initializers
Absent == [kind |-> "absent", of |-> "", items |-> <<>>]
FromHeaders(o) == [kind |-> "headers", of |-> o, items |-> <<>>]
FromList(items) == [kind |-> "list", of |-> "", items |-> items]
FromRecord(obj) == [kind |-> "record", of |-> "", items |-> obj]

\* the field initializers: headers = {}, names = new Map()
NewInstance == [headers |-> EmptyObject, names |-> EmptyMap]

\* variant: this.set in place of this.append
RECURSIVE SetEach(_, _)
SetEach(this, es) ==
    IF es = <<>> THEN Returns(this)
    ELSE LET r == set(this, Head(es)[1], Head(es)[2])
         IN IF r.thrown # None THEN r
            ELSE SetEach([headers |-> r.headers, names |-> r.names], Tail(es))

constructorOverwrites(initv, source) ==
    IF initv.kind = "headers"
    THEN LET fe == forEach(source)
         IN SetEach(NewInstance,
                    [i \in 1..Len(fe) |-> <<fe[i][2], fe[i][1].s>>])
    ELSE IF initv.kind = "list"
    THEN SetEach(NewInstance,
                 [i \in 1..Len(initv.items) |->
                     <<initv.items[i][1], JoinIfArray(initv.items[i][2])>>])
    ELSE IF initv.kind = "record"
    THEN LET ns == OwnKeys(initv.items)
         IN SetEach(NewInstance,
                    [i \in 1..Len(ns) |->
                        <<ns[i], JoinIfArray(PropGet(initv.items, ns[i]))>>])
    ELSE Returns(NewInstance)

\* constructor(init); `source` is the instance a Headers-like init denotes.
\* A pair list is an array; a record never has a constructor named Headers
\* or HeadersPolyfill, so it reaches the last branch.
constructor(initv, source) ==
    IF initv.kind = "headers"
    THEN LET fe == forEach(source)
         IN AppendEach(NewInstance,
                       [i \in 1..Len(fe) |-> <<fe[i][2], fe[i][1].s>>])
    ELSE IF initv.kind = "list"
    THEN AppendEach(NewInstance,
                    [i \in 1..Len(initv.items) |->
                        <<initv.items[i][1], JoinIfArray(initv.items[i][2])>>])
    ELSE IF initv.kind = "record"
    THEN LET ns == OwnKeys(initv.items)
         IN AppendEach(NewInstance,
                       [i \in 1..Len(ns) |->
                           <<ns[i], JoinIfArray(PropGet(initv.items, ns[i]))>>])
    ELSE Returns(NewInstance)

(***************************************************************************)
(* Inputs                                                                  *)
(***************************************************************************)
nA == <<"A">>
nSpaceA == <<" ", "a">>
n1 == <<"1">>
nBad == <<"a", " ", "b">>

vEmpty == <<>>
vX == <<"x">>
vPadded == <<" ", "x", "\n">>
vNul == <<"x", NUL>>

RawNames == {nA, nSpaceA, n1, kConstructor, kProto, nBad}
RawValues == {vEmpty, vX, vPadded, vNul}

(***************************************************************************)
(* State                                                                   *)
(*   ref[o]      the storage an instance variable o refers to, 0 if none   *)
(*   headers[a]  the `headers` field of the instance stored at a           *)
(*   names[a]    the `names` field of the instance stored at a             *)
(*   last        the last call made and how it ended                       *)
(*   calls[o]    number of mutating calls made on o                        *)
(*   init, pos   the initializer under construction and the entry reached  *)
(*               when it is replayed call by call                          *)
(***************************************************************************)
Objs == {"A", "B"}
Addrs == {1, 2}

This(o) == [headers |-> headers[ref[o]], names |-> names[ref[o]]]

\* variant: a new instance uses the storage of A
SharedAddr == ref["A"]

NewAddr == CHOOSE a \in Addrs : \A o \in Objs : ref[o] # a

NoCall == [op |-> "none", obj |-> "", name |-> <<>>, value |-> <<>>, thrown |-> None]

Store(o, r) ==
    /\ headers' = [headers EXCEPT ![ref[o]] = r.headers]
    /\ names' = [names EXCEPT ![ref[o]] = r.names]

Init ==
    /\ ref = [o \in Objs |-> IF o = "A" THEN 1 ELSE 0]
    /\ headers = [a \in Addrs |-> EmptyObject]
    /\ names = [a \in Addrs |-> EmptyMap]
    /\ last = NoCall
    /\ calls = [o \in Objs |-> 0]
    /\ init = Absent
    /\ pos = 0

CallSet(o, Ns, Vs) ==
    /\ ref[o] # 0
    /\ calls[o] < MaxCalls
    /\ \E name \in Ns, value \in Vs :
          LET r == set(This(o), name, value)
          IN /\ Store(o, r)
             /\ last' = [op |-> "set", obj |-> o, name |-> name,
                         value |-> value, thrown |-> r.thrown]
    /\ calls' = [calls EXCEPT ![o] = @ + 1]
    /\ UNCHANGED <<ref, init, pos>>

CallAppend(o, Ns, Vs) ==
    /\ ref[o] # 0
    /\ calls[o] < MaxCalls
    /\ \E name \in Ns, value \in Vs :
          LET r == append(This(o), name, value)
          IN /\ Store(o, r)
             /\ last' = [op |-> "append", obj |-> o, name |-> name,
                         value |-> value, thrown |-> r.thrown]
    /\ calls' = [calls EXCEPT ![o] = @ + 1]
    /\ UNCHANGED <<ref, init, pos>>

CallDelete(o, Ns) ==
    /\ ref[o] # 0
    /\ calls[o] < MaxCalls
    /\ \E name \in Ns :
          LET r == delete(This(o), name)
          IN /\ Store(o, r)
             /\ last' = [op |-> "delete", obj |-> o, name |-> name,
                         value |-> <<>>, thrown |-> r.thrown]
    /\ calls' = [calls EXCEPT ![o] = @ + 1]
    /\ UNCHANGED <<ref, init, pos>>

Next ==
    \/ CallSet("A", RawNames, RawValues)
    \/ CallAppend("A", RawNames, RawValues)
    \/ CallDelete("A", RawNames)

Spec == Init /\ [][Next]_vars


\* o = new HeadersPolyfill(initv): the fields are initialized afresh, the
\* constructor body runs; if it throws no instance results
Construct(o, initv) ==
    /\ ref[o] = 0
    /\ LET r == constructor(initv,
                            IF initv.kind = "headers" THEN This(initv.of)
                            ELSE NewInstance)
           a == NewAddr
       IN /\ IF r.thrown = None
             THEN /\ ref' = [ref EXCEPT ![o] = a]
                  /\ headers' = [headers EXCEPT ![a] = r.headers]
                  /\ names' = [names EXCEPT ![a] = r.names]
             ELSE UNCHANGED <<ref, headers, names>>
          /\ last' = [op |-> "constructor", obj |-> o, name |-> <<>>,
                      value |-> <<>>, thrown |-> r.thrown]
    /\ UNCHANGED <<calls, init, pos>>

(***************************************************************************)
(* An instance and its copy: B = new HeadersPolyfill(A), calls on both     *)
(***************************************************************************)
CopyNames == {nA, nSpaceA, n1, kConstructor}
CopyValues == {vEmpty, vX}

Copy == ref["A"] # 0 /\ Construct("B", FromHeaders("A"))

CopyBudget == calls["A"] + calls["B"] < MaxCopyCalls

NextCopy ==
    \/ Copy
    \/ \E o \in Objs :
          /\ CopyBudget
          /\ \/ CallSet(o, CopyNames, CopyValues)
             \/ CallAppend(o, CopyNames, CopyValues)
             \/ CallDelete(o, CopyNames)

SpecCopy == Init /\ [][NextCopy]_vars

(***************************************************************************)
(* Construction from a pair list or a record, next to the same entries     *)
(* appended one call at a time to an instance constructed empty            *)
(***************************************************************************)
v1 == <<"1">>
v2 == <<"2">>

InitNames == {nA, nSpaceA, n1, kConstructor, nBad}
InitValues == {Str(v1), Str(v2), Str(vEmpty), Arr(<<v1, v2>>), Arr(<<>>)}
InitEntries == {<<n, v>> : n \in InitNames, v \in InitValues}

RECURSIVE Lists(_)
Lists(n) ==
    IF n = 0 THEN {<<>>}
    ELSE LET shorter == Lists(n - 1)
         IN shorter \cup {Append(l, e) : l \in shorter, e \in InitEntries}

\* an object literal: its properties are defined in source order
RECURSIVE ObjectLiteral(_)
ObjectLiteral(l) ==
    IF l = <<>> THEN EmptyObject
    ELSE LET rest == ObjectLiteral(SubSeq(l, 1, Len(l) - 1))
             e == l[Len(l)]
         IN IF HasOwnProperty(rest, e[1])
            THEN [rest EXCEPT ![OwnIndex(rest, e[1])] = e]
            ELSE Append(rest, e)

Initializers ==
    {FromList(l) : l \in Lists(MaxInitLen)}
        \cup {FromRecord(ObjectLiteral(l)) : l \in Lists(MaxInitLen)}

\* the entries of an initializer in the order the constructor visits them
ReplayEntries(initv) ==
    IF initv.kind = "list" THEN initv.items
    ELSE LET ns == OwnKeys(initv.items)
         IN [i \in 1..Len(ns) |-> <<ns[i], PropGet(initv.items, ns[i])>>]

InitCtor ==
    /\ ref = [o \in Objs |-> 0]
    /\ headers = [a \in Addrs |-> EmptyObject]
    /\ names = [a \in Addrs |-> EmptyMap]
    /\ last = NoCall
    /\ calls = [o \in Objs |-> 0]
    /\ init \in Initializers
    /\ pos = 0

\* B = new HeadersPolyfill()
NewEmpty == Construct("B", Absent)

\* B.append(name, value) for the next entry of init
Replay ==
    /\ ref["B"] # 0
    /\ last.obj = "B"
    /\ last.thrown = None
    /\ pos < Len(ReplayEntries(init))
    /\ LET e == ReplayEntries(init)[pos + 1]
           value == IF e[2].t = "array" THEN ArrayJoin(e[2].s, CommaSpace)
                    ELSE e[2].s
           r == append(This("B"), e[1], value)
       IN /\ Store("B", r)
          /\ last' = [op |-> "append", obj |-> "B", name |-> e[1],
                      value |-> value, thrown |-> r.thrown]
          /\ pos' = IF r.thrown = None THEN pos + 1 ELSE pos
    /\ UNCHANGED <<ref, calls, init>>

\* A = new HeadersPolyfill(init), once the replay has ended
ConstructFromInit ==
    /\ ref["B"] # 0
    /\ last.obj = "B"
    /\ last.thrown # None \/ pos = Len(ReplayEntries(init))
    /\ Construct("A", init)

NextCtor == NewEmpty \/ Replay \/ ConstructFromInit

SpecCtor == InitCtor /\ [][NextCtor]_vars


(***************************************************************************)
(* Vocabulary of the properties                                            *)
(***************************************************************************)
Constructed == {o \in Objs : ref[o] # 0}
ValidNames == {n \in RawNames : normalizeHeaderName(n).thrown = None}
Key(n) == normalizeHeaderName(n).value
Norm(v) == normalizeHeaderValue(v).value

\* the keys of the two structures
HeaderKeys(this) == {this.headers[i][1] : i \in 1..Len(this.headers)}
NameKeys(this) == DOMAIN this.names

\* the value stored under key k; only meaningful when k is a key of headers
Stored(this, k) == this.headers[OwnIndex(this.headers, k)][2]

\* keys in the order in which they were inserted
InsertionOrder(this) == [i \in 1..Len(this.headers) |-> this.headers[i][1]]

Succeeded(c, op) == c.op = op /\ c.thrown = None

(***************************************************************************)
(* C1 - lockstep: in every reachable state the key set of `headers`        *)
(* equals the key set of `names`.                                          *)
(***************************************************************************)
C1_Lockstep == \A o \in Constructed : HeaderKeys(This(o)) = NameKeys(This(o))

(***************************************************************************)
(* C2 - case-insensitivity: after set(n1, v) with a normalized value v     *)
(* (the empty string included), get(n2) returns v for every n2 that        *)
(* differs from n1 only in case or surrounding whitespace.                 *)
(***************************************************************************)
C2_CaseInsensitive ==
    (Succeeded(last, "set") /\ Norm(last.value) = last.value)
    => \A n2 \in ValidNames :
          Key(n2) = Key(last.name)
          => get(This(last.obj), n2) = [thrown |-> None, value |-> Str(last.value)]

(***************************************************************************)
(* C3 - append accumulation: if a value e is stored under the key of name  *)
(* (whatever e is), after append(name, v) the stored value is e, ", ", v,  *)
(* normalized; if none is stored, it is v.                                 *)
(***************************************************************************)
C3_AppendStep ==
    Succeeded(last', "append")
    => LET o == last'.obj
           k == Key(last'.name)
           old == [headers |-> headers[ref[o]], names |-> names[ref[o]]]
           new == [headers |-> headers'[ref[o]], names |-> names'[ref[o]]]
           expected ==
               IF has(old, last'.name).value
               THEN Norm(Stored(old, k).s \o CommaSpace \o last'.value)
               ELSE Norm(last'.value)
       IN /\ k \in HeaderKeys(new)
          /\ Stored(new, k) = Str(expected)

C3_AppendAccumulates == [][C3_AppendStep]_vars

(***************************************************************************)
(* C4 - get/has agreement: for every valid name get does not throw; it     *)
(* returns the stored value whenever has is true, and null only when has   *)
(* is false.                                                               *)
(***************************************************************************)
C4_GetHasAgree ==
    \A o \in Constructed : \A n \in ValidNames :
        LET g == get(This(o), n)
            h == has(This(o), n)
        IN /\ g.thrown = None
           /\ h.thrown = None
           /\ h.value => g.value = Stored(This(o), Key(n))
           /\ g.value = Null => ~h.value

(***************************************************************************)
(* C5 - set overwrites: after set(name, v) the value stored under the key  *)
(* of name is the normalized v, the raw spelling recorded for the key is   *)
(* name, and every other key keeps its value and raw spelling.             *)
(***************************************************************************)
C5_SetStep ==
    Succeeded(last', "set")
    => LET o == last'.obj
           k == Key(last'.name)
           old == [headers |-> headers[ref[o]], names |-> names[ref[o]]]
           new == [headers |-> headers'[ref[o]], names |-> names'[ref[o]]]
       IN /\ k \in HeaderKeys(new)
          /\ Stored(new, k) = Str(Norm(last'.value))
          /\ k \in NameKeys(new)
          /\ new.names[k] = last'.name
          /\ HeaderKeys(new) \ {k} = HeaderKeys(old) \ {k}
          /\ NameKeys(new) \ {k} = NameKeys(old) \ {k}
          /\ \A j \in HeaderKeys(old) \ {k} : Stored(new, j) = Stored(old, j)
          /\ \A j \in NameKeys(old) \ {k} : new.names[j] = old.names[j]

C5_SetOverwrites == [][C5_SetStep]_vars

(***************************************************************************)
(* C6 - delete symmetry: after set(n, v) followed by delete(n') with n'    *)
(* normalizing to the key of n, has(n) is false, get(n) is absent and      *)
(* raw() has no entry whose key normalizes to that key.                    *)
(***************************************************************************)
C6_DeleteStep ==
    (/\ Succeeded(last, "set")
     /\ Succeeded(last', "delete")
     /\ last'.obj = last.obj
     /\ Key(last'.name) = Key(last.name))
    => LET o == last.obj
           new == [headers |-> headers'[ref[o]], names |-> names'[ref[o]]]
           r == raw(new)
       IN /\ has(new, last.name) = [thrown |-> None, value |-> FALSE]
          /\ get(new, last.name) = [thrown |-> None, value |-> Null]
          /\ \A i \in 1..Len(r) :
                LET rk == normalizeHeaderName(r[i][1])
                IN ~(rk.thrown = None /\ rk.value = Key(last.name))

C6_DeleteSymmetry == [][C6_DeleteStep]_vars

(***************************************************************************)
(* C7 - raw-name tracking: raw() has, for each stored key, exactly one     *)
(* entry, keyed by the raw spelling passed to the most recent set or       *)
(* append on that key and holding the stored value of that key.            *)
(***************************************************************************)
C7_RawTracking ==
    \A o \in Constructed :
        LET this == This(o)
            r == raw(this)
        IN /\ Len(r) = Len(this.headers)
           /\ \A k \in HeaderKeys(this) :
                 /\ k \in NameKeys(this)
                 /\ HasOwnProperty(r, this.names[k])
                 /\ PropGet(r, this.names[k]) = Stored(this, k)
           /\ (/\ last.obj = o
               /\ (Succeeded(last, "set") \/ Succeeded(last, "append"))
               /\ Key(last.name) \in HeaderKeys(this))
              => /\ HasOwnProperty(r, last.name)
                 /\ PropGet(r, last.name) = Stored(this, Key(last.name))

(***************************************************************************)
(* C8 - iteration order: keys(), values() and entries() yield the stored   *)
(* headers in the order in which their keys were first inserted, whatever  *)
(* the names (names made only of digits included).                         *)
(***************************************************************************)
C8_IterationOrder ==
    \A o \in Constructed :
        LET this == This(o)
            ord == InsertionOrder(this)
        IN /\ keys(this) = ord
           /\ values(this) = [i \in 1..Len(ord) |-> Stored(this, ord[i])]
           /\ [i \in 1..Len(ord) |-> entries(this)[i][1]] = ord

(***************************************************************************)
(* C9 - construction equivalence: constructing from a pair list or from a  *)
(* record gives the state that appending the entries in order to an empty  *)
(* instance gives, an array value being joined with ", " first; the        *)
(* constructor throws exactly when one of those appends throws; and        *)
(* [["A","1"],["A","2"]] gives get("a") = "1, 2".                         *)
(***************************************************************************)
ExampleInit == FromList(<<<<nA, Str(v1)>>, <<nA, Str(v2)>>>>)

C9_ConstructionEquivalence ==
    (last.op = "constructor" /\ last.obj = "A")
    => /\ last.thrown = None <=> pos = Len(ReplayEntries(init))
       /\ last.thrown = None
          => /\ ref["A"] # 0
             /\ headers[ref["A"]] = headers[ref["B"]]
             /\ names[ref["A"]] = names[ref["B"]]
       /\ (init = ExampleInit)
          => /\ ref["A"] # 0
             /\ get(This("A"), <<"a">>).value = Str(<<"1", ",", " ", "2">>)

\* a list with a repeated name and a record with an array value have been
\* constructed from
C9_Witness ==
    /\ last.op = "constructor" /\ last.obj = "A" /\ last.thrown = None
    /\ init = ExampleInit
    /\ headers[ref["A"]] = <<<<(<<"a">>), Str(<<"1", ",", " ", "2">>)>>>>

(***************************************************************************)
(* C10 - copy independence: B = new HeadersPolyfill(A) has the entries of  *)
(* A in the order of A, get and has agree on every name, and a later set,  *)
(* append or delete on one of them leaves the other unchanged.             *)
(***************************************************************************)
C10_CopyStep ==
    /\ (ref["B"] = 0 /\ last'.op = "constructor" /\ last'.obj = "B")
       => LET a == [headers |-> headers'[ref'["A"]], names |-> names'[ref'["A"]]]
              b == [headers |-> headers'[ref'["B"]], names |-> names'[ref'["B"]]]
          IN /\ last'.thrown = None
             /\ ref'["B"] # 0
             /\ a.headers = headers[ref["A"]]
             /\ keys(b) = keys(a)
             /\ values(b) = values(a)
             /\ entries(b) = entries(a)
             /\ \A n \in RawNames : get(b, n) = get(a, n) /\ has(b, n) = has(a, n)
    /\ \A o \in Objs : \A p \in Objs \ {o} :
          (last'.op \in {"set", "append", "delete"} /\ last'.obj = o /\ ref[p] # 0)
          => /\ ref'[p] = ref[p]
             /\ headers'[ref[p]] = headers[ref[p]]
             /\ names'[ref[p]] = names[ref[p]]

C10_CopyIndependence == [][C10_CopyStep]_vars

\* A holding an empty value and a digit key has been copied, and the copy
\* then changed while A kept its entries
C10_Witness ==
    /\ ref["B"] # 0
    /\ last.obj = "B" /\ last.op \in {"set", "append", "delete"}
    /\ headers[ref["A"]] = <<<<<<"a">>, Str(vEmpty)>>, <<n1, Str(vX)>>>>
    /\ headers[ref["B"]] # headers[ref["A"]]

(***************************************************************************)
(* C11 - invalid input rejection: set or append with a name that fails     *)
(* name normalization throws InvalidHeaderName; with a valid name and a    *)
(* value that fails value normalization it throws InvalidHeaderValue; the  *)
(* failed call changes neither `headers` nor `names`.                      *)
(***************************************************************************)
C11_RejectStep ==
    (last'.op \in {"set", "append"} /\ calls' # calls)
    => LET o == last'.obj
           n == normalizeHeaderName(last'.name)
           v == normalizeHeaderValue(last'.value)
       IN /\ n.thrown # None => last'.thrown = InvalidHeaderName
          /\ (n.thrown = None /\ v.thrown # None)
             => last'.thrown = InvalidHeaderValue
          /\ last'.thrown # None
             => /\ headers'[ref[o]] = headers[ref[o]]
                /\ names'[ref[o]] = names[ref[o]]

C11_InvalidInputRejected == [][C11_RejectStep]_vars

\* an append of an invalid value to a stored header has been rejected
C11_Witness ==
    /\ last.op = "append"
    /\ last.thrown = InvalidHeaderValue
    /\ Key(last.name) \in HeaderKeys(This(last.obj))

(***************************************************************************)
(* C12 - iterator agreement: entries() yields the pairs (k_i, v_i) where   *)
(* keys() yields k_1..k_n and values() yields v_1..v_n, v_i being the      *)
(* stored value of k_i and never the absent sentinel; default iteration    *)
(* yields what entries() yields.                                           *)
(***************************************************************************)
C12_IteratorAgreement ==
    \A o \in Constructed :
        LET this == This(o)
            ks == keys(this)
            vs == values(this)
            es == entries(this)
        IN /\ Len(ks) = Len(vs)
           /\ Len(es) = Len(ks)
           /\ \A i \in 1..Len(es) :
                 /\ es[i] = <<ks[i], vs[i]>>
                 /\ vs[i] = Stored(this, ks[i])
                 /\ es[i][2] # Null
           /\ iterator(this) = es

(***************************************************************************)
(* C13 - forEach calls the callback once per stored entry, in insertion    *)
(* order, with the stored value and the normalized name, and not at all    *)
(* when the map is empty.                                                  *)
(***************************************************************************)
C13_ForEachOrder ==
    \A o \in Constructed :
        LET this == This(o)
            ord == InsertionOrder(this)
        IN forEach(this) = [i \in 1..Len(ord) |-> <<Stored(this, ord[i]), ord[i]>>]

(***************************************************************************)
(* C14 - stored data is normalized: every key of `headers` is a fixed      *)
(* point of name normalization and every stored value a fixed point of     *)
(* value normalization, values built by append's concatenation included.   *)
(***************************************************************************)
C14_StoredNormalized ==
    \A o \in Constructed :
        \A i \in 1..Len(headers[ref[o]]) :
            LET k == headers[ref[o]][i][1]
                v == headers[ref[o]][i][2]
            IN /\ normalizeHeaderName(k) = [thrown |-> None, value |-> k]
               /\ v.t = "string"
               /\ normalizeHeaderValue(v.s) = [thrown |-> None, value |-> v.s]

\* a value with surrounding whitespace has been appended to a stored value
\* under a name with surrounding whitespace
C14_Witness ==
    /\ Succeeded(last, "append")
    /\ last.name = nSpaceA
    /\ last.value = vPadded
    /\ Stored(This(last.obj), <<"a">>) = Str(<<"x", ",", " ", " ", "x">>)

(***************************************************************************)
(* C15 - delete frame: delete of a valid name that is not stored changes   *)
(* nothing and does not throw; delete of a stored name removes that key    *)
(* from `headers` and `names` and leaves the value, the raw spelling and   *)
(* the relative iteration order of every other key as they were.           *)
(***************************************************************************)
C15_DeleteStep ==
    (last'.op = "delete" /\ calls' # calls
        /\ normalizeHeaderName(last'.name).thrown = None)
    => LET o == last'.obj
           k == Key(last'.name)
           old == [headers |-> headers[ref[o]], names |-> names[ref[o]]]
           new == [headers |-> headers'[ref[o]], names |-> names'[ref[o]]]
       IN /\ last'.thrown = None
          /\ IF k \notin HeaderKeys(old)
             THEN new = old
             ELSE /\ HeaderKeys(new) = HeaderKeys(old) \ {k}
                  /\ NameKeys(new) = NameKeys(old) \ {k}
                  /\ \A j \in HeaderKeys(new) : Stored(new, j) = Stored(old, j)
                  /\ \A j \in NameKeys(new) : new.names[j] = old.names[j]
                  /\ keys(new) = SelectSeq(keys(old), LAMBDA j : j # k)
                  /\ InsertionOrder(new)
                        = SelectSeq(InsertionOrder(old), LAMBDA j : j # k)

C15_DeleteFrame == [][C15_DeleteStep]_vars

\* a delete has succeeded on an instance that still holds two other keys
C15_Witness ==
    /\ Succeeded(last, "delete")
    /\ Key(last.name) \notin HeaderKeys(This(last.obj))
    /\ Len(headers[ref[last.obj]]) = 2
    /\ calls[last.obj] >= 3

(***************************************************************************)
(* C16 - raw names are consistent with their keys: for every key k of      *)
(* `names`, normalizing names[k] gives k; no two stored keys share a raw   *)
(* spelling; raw() has as many entries as `headers`.                       *)
(***************************************************************************)
C16_RawNamesConsistent ==
    \A o \in Constructed :
        LET this == This(o)
        IN /\ \A k \in NameKeys(this) :
                 normalizeHeaderName(this.names[k]) = [thrown |-> None, value |-> k]
           /\ \A j, k \in HeaderKeys(this) :
                 /\ j \in NameKeys(this)
                 /\ j # k => this.names[j] # this.names[k]
           /\ Len(raw(this)) = Len(this.headers)

\* two keys are stored, one under a raw spelling that is not its key
C16_Witness ==
    /\ HeaderKeys(This("A")) = {<<"a">>, kConstructor}
    /\ names[ref["A"]][<<"a">>] = nSpaceA
    /\ Len(raw(This("A"))) = 2
====
